---- MODULE Spec2Model ----
(***************************************************************************)
(* Model of the move-resolution core of src/main.py: sum_group,            *)
(* place_joker_in_run, the nested identify, and the part of solve_game     *)
(* that follows the optimizer call (lines 166-252).                        *)
(*                                                                         *)
(* A tile string such as 'b7' is the record [c |-> "b", n |-> 7]; tile[0]  *)
(* is .c and int(tile[1:]) is .n.  The wildcard 'j' and the labels 'r' and *)
(* 'g' that identify puts in front of a set are one-character strings:     *)
(* they have no digits, which is written n |-> 0.                          *)
(***************************************************************************)
EXTENDS Integers, Sequences, FiniteSets, TLC

VARIABLES
    pc,             \* "call": solver.solve has returned; "returned": solve_game has returned
    sg_numbers,     \* sg.numbers of the request (config.numbers, or 13 without a config)
    maximise,       \* query parameter, handed to the optimizer only
    initial_meld,   \* query parameter
    value,          \* objective value returned by solver.solve
    readable_tiles, \* the tiles the optimizer moves from the rack
    readable_sets,  \* the melds the optimizer selected
    resolved,       \* per meld: what identify returned (set_to_add, value_to_add) or that it raised
    point_value,    \* local point_value when solve_game returns
    move            \* the returned Move

vars == <<pc, sg_numbers, maximise, initial_meld, value, readable_tiles,
          readable_sets, resolved, point_value, move>>

----------------------------------------------------------------------------
(* Program constants *)

colours == <<"k", "b", "o", "r">>

DefaultNumbers == 13

RunUpperLimit == 13

InitialMeldThreshold == 30

(* Bounds of the explored inputs *)

MaxMeldLen == 4      \* tiles in the meld of a one-meld selection

HighSpan == 3        \* a one-meld selection uses the HighSpan numbers ending at sg.numbers

AltNumbers == 10     \* config.numbers of the requests that carry a config

MaxMelds == 2        \* melds in a multi-meld selection

MoveMeldLen == 3     \* tiles in a meld of a multi-meld selection

MaxSolverValue == 1  \* largest objective value of a non-empty selection

MeldColourIndexes == {1, 2}   \* colours of a one-meld selection: 'k' and 'b'

MoveColourIndexes == {2}      \* colour of a multi-meld selection: 'b'

LowNumbers == {1}             \* a one-meld selection also uses the lowest number

MoveNumbers == {4}            \* number of the tiles of a multi-meld selection

----------------------------------------------------------------------------
(* Tiles *)

Tile(c, n) == [c |-> c, n |-> n]

Joker == [c |-> "j", n |-> 0]

RunLabel == [c |-> "r", n |-> 0]

GroupLabel == [c |-> "g", n |-> 0]

\* verbose_list of create_number_maps, for the colours with the given indexes
verbose_list(numbers, colour_indexes) ==
    {Tile(colours[c], n) : c \in colour_indexes, n \in 1..numbers} \cup {Joker}

----------------------------------------------------------------------------
(* List helpers (Python built-ins) *)

RECURSIVE SumSeq(_)
SumSeq(s) == IF s = <<>> THEN 0 ELSE Head(s) + SumSeq(Tail(s))

RECURSIVE Without(_, _)
Without(s, x) ==
    IF s = <<>> THEN <<>>
    ELSE IF Head(s) = x THEN Without(Tail(s), x)
         ELSE <<Head(s)>> \o Without(Tail(s), x)

Count(s, x) == Len(s) - Len(Without(s, x))

NumbersOf(s) == [i \in 1..Len(s) |-> s[i].n]

Sorted(s) == SortSeq(s, LAMBDA a, b : a < b)

RECURSIVE Concat(_)
Concat(ss) == IF ss = <<>> THEN <<>> ELSE Head(ss) \o Concat(Tail(ss))

\* outcome of a call: a returned pair (set, total), or an exception
Returned(set, total) == [ok |-> TRUE, set |-> set, total |-> total]

Raised == [ok |-> FALSE, set |-> <<>>, total |-> 0]

----------------------------------------------------------------------------
(* sum_group *)

\* sum_group that counts the concrete tiles only
sum_group_SkipsJokers(tile_set) ==
    LET real_tiles == Without(Tail(tile_set), Joker)
    IN  IF real_tiles = <<>> THEN [ok |-> FALSE, set |-> <<>>, total |-> 0]
        ELSE [ok |-> TRUE, set |-> tile_set, total |-> real_tiles[1].n * Len(real_tiles)]

sum_group(tile_set) ==
    LET tiles       == Tail(tile_set)
        joker_count == Count(tiles, Joker)
        real_tiles  == Without(tiles, Joker)
        numbers     == NumbersOf(real_tiles)
    IN  IF numbers = <<>> THEN Raised      \* numbers[0]: IndexError
        ELSE LET base_value == numbers[1]
             IN  Returned(tile_set,
                          base_value * Len(real_tiles) + base_value * joker_count)

----------------------------------------------------------------------------
(* place_joker_in_run *)

\* for j in range(1, gap): filled_numbers.append(numbers[i] + j)
RangeFill(from, gap) == [j \in 1..(gap - 1) |-> from + j]

\* the first while loop; i is the 0-based index of the code
RECURSIVE FillGaps(_, _, _, _, _)
FillGaps(numbers, i, filled_numbers, inserted_jokers, joker_count) ==
    IF ~(i < Len(numbers) - 1)
    THEN [filled |-> filled_numbers, inserted |-> inserted_jokers]
    ELSE LET f1  == Append(filled_numbers, numbers[i + 1])
             gap == numbers[i + 2] - numbers[i + 1]
         IN  IF gap = 1
             THEN FillGaps(numbers, i + 1, f1, inserted_jokers, joker_count)
             ELSE IF gap > 1
             THEN LET missing == gap - 1
                  IN  IF inserted_jokers + missing <= joker_count
                      THEN FillGaps(numbers, i + 1,
                                    f1 \o RangeFill(numbers[i + 1], gap),
                                    inserted_jokers + missing, joker_count)
                      ELSE [filled |-> f1, inserted |-> inserted_jokers]  \* break
             ELSE FillGaps(numbers, i + 1, f1, inserted_jokers, joker_count)

\* ExtendRun that alternates below and above the run instead of going upward first
RECURSIVE ExtendRun_Centred(_, _, _)
ExtendRun_Centred(filled_numbers, inserted_jokers, joker_count) ==
    IF ~(inserted_jokers < joker_count) THEN filled_numbers
    ELSE IF filled_numbers[1] > 1 /\ (inserted_jokers % 2 = 0 \/ ~(filled_numbers[Len(filled_numbers)] < 13))
    THEN ExtendRun_Centred(<<filled_numbers[1] - 1>> \o filled_numbers,
                           inserted_jokers + 1, joker_count)
    ELSE IF filled_numbers[Len(filled_numbers)] < 13
    THEN ExtendRun_Centred(Append(filled_numbers, filled_numbers[Len(filled_numbers)] + 1),
                           inserted_jokers + 1, joker_count)
    ELSE filled_numbers

\* the second while loop
RECURSIVE ExtendRun(_, _, _)
ExtendRun(filled_numbers, inserted_jokers, joker_count) ==
    IF ~(inserted_jokers < joker_count) THEN filled_numbers
    ELSE IF filled_numbers[Len(filled_numbers)] < RunUpperLimit
    THEN ExtendRun(Append(filled_numbers, filled_numbers[Len(filled_numbers)] + 1),
                   inserted_jokers + 1, joker_count)
    ELSE IF filled_numbers[1] > 1
    THEN ExtendRun(<<filled_numbers[1] - 1>> \o filled_numbers,
                   inserted_jokers + 1, joker_count)
    ELSE filled_numbers                                               \* break

\* the for loop that rebuilds the set from filled_numbers
RECURSIVE Rebuild(_, _, _)
Rebuild(filled_numbers, tiles_copy, new_set) ==
    IF filled_numbers = <<>> THEN new_set
    ELSE IF tiles_copy # <<>> /\ Head(tiles_copy).n = Head(filled_numbers)
    THEN Rebuild(Tail(filled_numbers), Tail(tiles_copy),
                 Append(new_set, Head(tiles_copy)))
    ELSE Rebuild(Tail(filled_numbers), tiles_copy, Append(new_set, Joker))

place_joker_in_run(tile_set) ==
    IF tile_set = <<>> \/ Head(tile_set) # RunLabel \/ Count(tile_set, Joker) = 0
    THEN Returned(tile_set, SumSeq(NumbersOf(Without(Tail(tile_set), Joker))))
    ELSE LET tiles       == Without(Tail(tile_set), Joker)
             joker_count == Count(tile_set, Joker)
             numbers     == Sorted(NumbersOf(tiles))
         IN  IF numbers = <<>> THEN Raised       \* numbers[-1]: IndexError
             ELSE LET gaps   == FillGaps(numbers, 0, <<>>, 0, joker_count)
                      f2     == Append(gaps.filled, numbers[Len(numbers)])
                      filled == Sorted(ExtendRun(f2, gaps.inserted, joker_count))
                  IN  Returned(Rebuild(filled, tiles, <<RunLabel>>), SumSeq(filled))

----------------------------------------------------------------------------
(* identify, nested in solve_game *)

\* ChooseCandidate with ">=" for ">": a tie goes to the run
ChooseCandidate_TieToRun(grp, run, initial) ==
    IF ~grp.ok \/ ~run.ok THEN [ok |-> FALSE, set |-> <<>>, total |-> 0]
    ELSE IF initial
    THEN IF run.total >= grp.total THEN run ELSE grp
    ELSE grp

\* lines 214-222: both readings of one tile + two jokers are computed first
\* (either call may raise), then one is chosen
ChooseCandidate(grp, run, initial) ==
    IF ~grp.ok \/ ~run.ok THEN Raised
    ELSE IF initial
    THEN IF run.total > grp.total THEN run ELSE grp
    ELSE grp                                  \* sum_group(["g"] + tile_set) again

identify(tile_set, initial) ==
    LET jokers           == Count(tile_set, Joker)
        colors           == {tile_set[i].c : i \in {k \in 1..Len(tile_set) : tile_set[k] # Joker}}
        number_of_colors == Cardinality(colors)
    IN  IF jokers = 0 \/ jokers = 1
        THEN IF number_of_colors = 1
             THEN place_joker_in_run(<<RunLabel>> \o tile_set)
             ELSE sum_group(<<GroupLabel>> \o tile_set)
        ELSE IF number_of_colors = 1 /\ Len(tile_set) = 3
             THEN ChooseCandidate(sum_group(<<GroupLabel>> \o tile_set),
                                  place_joker_in_run(<<RunLabel>> \o tile_set),
                                  initial)
             ELSE IF number_of_colors = 1 /\ Len(tile_set) > 3
             THEN place_joker_in_run(<<RunLabel>> \o tile_set)
             ELSE sum_group(<<GroupLabel>> \o tile_set)

----------------------------------------------------------------------------
(* solve_game, from the return of solver.solve on *)

\* LoopBody with the append moved in front of the call of identify: a meld
\* whose resolution raises stays in labeled_sets
LoopBody_KeepsFailed(acc, lset, initial) ==
    LET r == identify(lset, initial)
    IN  [point_value  |-> acc.point_value + (IF r.ok THEN r.total ELSE 0),
         labeled_sets |-> Append(acc.labeled_sets, lset),
         resolved     |-> Append(acc.resolved, r)]

\* LoopBody with "point_value = value_to_add" for "point_value += value_to_add"
LoopBody_Overwrites(acc, lset, initial) ==
    LET r == identify(lset, initial)
    IN  IF r.ok
        THEN [point_value  |-> r.total,
              labeled_sets |-> Append(acc.labeled_sets, lset),
              resolved     |-> Append(acc.resolved, r)]
        ELSE [acc EXCEPT !.resolved = Append(acc.resolved, r)]

\* one iteration of "for lset in readable_sets" (lines 228-234)
LoopBody(acc, lset, initial) ==
    LET r == identify(lset, initial)
    IN  IF r.ok
        THEN [point_value  |-> acc.point_value + r.total,
              labeled_sets |-> Append(acc.labeled_sets, lset),
              resolved     |-> Append(acc.resolved, r)]
        ELSE [acc EXCEPT !.resolved = Append(acc.resolved, r)]   \* print("parse error", e)

RECURSIVE ResolveAll(_, _, _)
ResolveAll(sets, acc, initial) ==
    IF sets = <<>> THEN acc
    ELSE ResolveAll(Tail(sets), LoopBody(acc, Head(sets), initial), initial)

Resolution(sets, initial) ==
    ResolveAll(sets, [point_value |-> 0, labeled_sets |-> <<>>, resolved |-> <<>>], initial)

\* GateRejects with "<=" for "<"
GateRejects_Inclusive(initial, points) == initial /\ points <= InitialMeldThreshold

\* line 236
GateRejects(initial, points) == initial /\ points < InitialMeldThreshold

Message(kind, points) == [kind |-> kind, points |-> points, threshold |-> InitialMeldThreshold]

\* lines 166-174
ReturnNoMove ==
    /\ pc = "call"
    /\ value = 0
    /\ pc' = "returned"
    /\ move' = [tiles_to_play |-> <<>>, sets_to_make |-> <<>>, value |-> 0,
                success |-> FALSE, message |-> Message("no_move", 0)]
    /\ UNCHANGED <<sg_numbers, maximise, initial_meld, value, readable_tiles,
                   readable_sets, resolved, point_value>>

\* lines 175-243
ReturnShortfall ==
    /\ pc = "call"
    /\ value # 0
    /\ LET res == Resolution(readable_sets, initial_meld)
       IN  /\ GateRejects(initial_meld, res.point_value)
           /\ resolved' = res.resolved
           /\ point_value' = res.point_value
           /\ move' = [tiles_to_play |-> <<>>, sets_to_make |-> <<>>, value |-> value,
                       success |-> FALSE,
                       message |-> Message("initial_meld", res.point_value)]
    /\ pc' = "returned"
    /\ UNCHANGED <<sg_numbers, maximise, initial_meld, value, readable_tiles, readable_sets>>

\* lines 175-234, 245-252
ReturnValid ==
    /\ pc = "call"
    /\ value # 0
    /\ LET res == Resolution(readable_sets, initial_meld)
       IN  /\ ~GateRejects(initial_meld, res.point_value)
           /\ resolved' = res.resolved
           /\ point_value' = res.point_value
           /\ move' = [tiles_to_play |-> readable_tiles, sets_to_make |-> res.labeled_sets,
                       value |-> value, success |-> TRUE,
                       message |-> Message("valid", res.point_value)]
    /\ pc' = "returned"
    /\ UNCHANGED <<sg_numbers, maximise, initial_meld, value, readable_tiles, readable_sets>>

Next == ReturnNoMove \/ ReturnShortfall \/ ReturnValid

----------------------------------------------------------------------------
(* Requests *)

NoMoveYet == [tiles_to_play |-> <<>>, sets_to_make |-> <<>>, value |-> 0,
              success |-> FALSE, message |-> Message("none", 0)]

SeqsUpTo(S, n) == UNION {[1..k -> S] : k \in 1..n}

\* What solver.solve returned: nothing (objective 0), or a selection with a
\* positive objective whose tiles all come from the rack (empty table).
InitCommon(selections, objectives) ==
    /\ pc = "call"
    /\ maximise \in objectives
    /\ initial_meld \in BOOLEAN
    /\ \/ /\ value = 0
          /\ readable_sets = <<>>
       \/ /\ value \in 1..MaxSolverValue
          /\ readable_sets \in selections
    /\ readable_tiles = Concat(readable_sets)
    /\ resolved = <<>>
    /\ point_value = 0
    /\ move = NoMoveYet

\* tiles of a one-meld selection under a rule set with sg.numbers = n
MeldTiles(n) ==
    {t \in verbose_list(n, MeldColourIndexes) :
        t = Joker \/ t.n \in LowNumbers \/ t.n > n - HighSpan}

OneMeldSelections(n) == {<<m>> : m \in SeqsUpTo(MeldTiles(n), MaxMeldLen)}

\* one meld of any shape, default rule set (no config in the request); the
\* objective is "tiles": solve_game only hands it to the optimizer
InitMeld ==
    /\ sg_numbers = DefaultNumbers
    /\ InitCommon(OneMeldSelections(sg_numbers), {"tiles"})

\* one meld of any shape, the request carries a config with fewer numbers
InitConfig ==
    /\ sg_numbers = AltNumbers
    /\ InitCommon(OneMeldSelections(sg_numbers), {"tiles"})

MoveTiles ==
    {t \in verbose_list(DefaultNumbers, MoveColourIndexes) :
        t = Joker \/ t.n \in MoveNumbers}

\* several melds, default rule set, either objective
InitMove ==
    /\ sg_numbers = DefaultNumbers
    /\ InitCommon(SeqsUpTo(SeqsUpTo(MoveTiles, MoveMeldLen), MaxMelds), {"tiles", "value"})

Spec == InitMeld /\ [][Next]_vars

SpecConfig == InitConfig /\ [][Next]_vars

SpecMove == InitMove /\ [][Next]_vars

----------------------------------------------------------------------------
(* Properties *)

Done == pc = "returned" /\ value # 0

Melds == DOMAIN readable_sets

Concrete(m) == Without(m, Joker)

Wildcards(m) == Count(m, Joker)

ColoursOf(m) == {Concrete(m)[i].c : i \in 1..Len(Concrete(m))}

ValuesOf(m) == {Concrete(m)[i].n : i \in 1..Len(Concrete(m))}

Distinct(m) == Cardinality(ValuesOf(m)) = Len(Concrete(m))

MinOf(S) == CHOOSE x \in S : \A y \in S : x <= y

MaxOf(S) == CHOOSE x \in S : \A y \in S : x >= y

RECURSIVE SumRange(_, _)
SumRange(lo, hi) == IF lo > hi THEN 0 ELSE lo + SumRange(lo + 1, hi)

\* sum of the point values of the melds that resolved
RECURSIVE SumResolved(_)
SumResolved(rs) ==
    IF rs = <<>> THEN 0
    ELSE (IF Head(rs).ok THEN Head(rs).total ELSE 0) + SumResolved(Tail(rs))

\* the melds that resolved, in their original order
RECURSIVE KeptMelds(_, _)
KeptMelds(sets, rs) ==
    IF sets = <<>> THEN <<>>
    ELSE (IF Head(rs).ok THEN <<Head(sets)>> ELSE <<>>) \o KeptMelds(Tail(sets), Tail(rs))

\* one concrete tile and two wildcards
AmbiguousShape(m) == Len(m) = 3 /\ Wildcards(m) = 2

----------------------------------------------------------------------------
(* C1: initial-meld gate.  For every selection with a solver value other   *)
(* than 0: if initial_meld is set and the points of the melds that         *)
(* resolved sum to less than 30, the move has success = false, no sets, no *)
(* tiles, and a message carrying that sum and the threshold 30; in every   *)
(* other case success = true.                                              *)
C1_InitialMeldGate ==
    Done =>
        IF initial_meld /\ SumResolved(resolved) < 30
        THEN /\ move.success = FALSE
             /\ move.sets_to_make = <<>>
             /\ move.tiles_to_play = <<>>
             /\ move.message = [kind |-> "initial_meld",
                                points |-> SumResolved(resolved), threshold |-> 30]
        ELSE move.success = TRUE

\* two melds that both resolved, 28 points in all, rejected as an initial meld
C1_Witness ==
    /\ Done /\ initial_meld
    /\ Len(resolved) = 2 /\ resolved[1].ok /\ resolved[2].ok
    /\ SumResolved(resolved) = 28
    /\ ~move.success /\ move.sets_to_make = <<>> /\ readable_tiles # <<>>

C7_ValueIsPointSum ==
    (Done /\ move.success) => move.value = SumResolved(resolved)

(* C7 as amended: the point total in the message of an accepted Move is    *)
(* the sum of the point values of the melds that resolved, whatever        *)
(* maximise is; the value field is the optimizer's objective value.        *)
C7_MessageIsPointSum ==
    (Done /\ move.success) =>
        /\ move.message = [kind |-> "valid", points |-> SumResolved(resolved),
                           threshold |-> 30]
        /\ move.value = value

\* an accepted move of two resolved melds under the objective "value"
C7_Witness ==
    /\ Done /\ move.success /\ maximise = "value"
    /\ Len(resolved) = 2 /\ resolved[1].ok /\ resolved[2].ok
    /\ Len(readable_sets[1]) = 3 /\ Len(readable_sets[2]) = 3
    /\ move.message.points = resolved[1].total + resolved[2].total
    /\ move.value # move.message.points

----------------------------------------------------------------------------
\* the one concrete tile of a meld of the ambiguous shape
TheTile(m) == Concrete(m)[1]

\* what place_joker_in_run makes of the meld read as a run
RunCandidate(m) == place_joker_in_run(<<RunLabel>> \o m)

\* the run lo, lo+1, lo+2 around the tile t, wildcards at the other places
RunOfThree(lo, t) ==
    [ok |-> TRUE,
     set |-> <<RunLabel>> \o [k \in 1..3 |-> IF lo + k - 1 = t.n THEN t ELSE Joker],
     total |-> SumRange(lo, lo + 2)]

(* C4: ambiguity policy.  A meld of one concrete tile of number v and two  *)
(* wildcards resolves, when initial_meld is false, as a Group worth 3*v;   *)
(* when initial_meld is true, as the Run candidate if that is worth        *)
(* strictly more than 3*v, and as the Group otherwise.                     *)
C4_AmbiguityPolicy ==
    Done => \A i \in Melds :
        LET m == readable_sets[i]
            r == resolved[i]
            v == TheTile(m).n
            grp == [ok |-> TRUE, set |-> <<GroupLabel>> \o m, total |-> 3 * v]
        IN  AmbiguousShape(m) =>
                IF initial_meld /\ RunCandidate(m).total > 3 * v
                THEN r = RunCandidate(m) /\ Head(r.set) = RunLabel
                ELSE r = grp

\* an initial meld around a 12: run 11, 12, 13 and group 12, 12, 12 tie at 36
C4_Witness ==
    /\ Done /\ initial_meld
    /\ AmbiguousShape(readable_sets[1])
    /\ TheTile(readable_sets[1]).n = 12
    /\ RunCandidate(readable_sets[1]).total = 36
    /\ Head(resolved[1].set) = GroupLabel /\ resolved[1].total = 36

\* >= 2 colours among the concrete tiles, one number, at most two wildcards
GroupShape(m) ==
    /\ Cardinality(ColoursOf(m)) >= 2
    /\ Cardinality(ValuesOf(m)) = 1
    /\ Wildcards(m) <= 2

(* C5: group scoring.  A meld whose concrete tiles have at least two       *)
(* colours and one number v, with 0, 1 or 2 wildcards, resolves as a Group *)
(* worth (number of tiles, wildcards included) * v.                        *)
C5_GroupScoring ==
    Done => \A i \in Melds :
        LET m == readable_sets[i]
            r == resolved[i]
        IN  GroupShape(m) =>
                /\ r.ok
                /\ Head(r.set) = GroupLabel
                /\ r.total = Len(m) * MaxOf(ValuesOf(m))

\* two 13s of different colours and two wildcards: 52 points
C5_Witness ==
    /\ Done
    /\ GroupShape(readable_sets[1])
    /\ Wildcards(readable_sets[1]) = 2 /\ Len(readable_sets[1]) = 4
    /\ resolved[1].total = 4 * 13

Clamp(x, lo, hi) == IF x < lo THEN lo ELSE IF x > hi THEN hi ELSE x

(* C8 as claimed: the run candidate of one concrete tile v and two         *)
(* wildcards is the run of three centred on v, clamped to 1..13            *)
(* (v-1, v, v+1 for 2 <= v <= 12), and its value is the sum of that run.   *)
C8_CentredRun ==
    Done => \A i \in Melds :
        LET m == readable_sets[i]
        IN  AmbiguousShape(m) =>
                RunCandidate(m) = RunOfThree(Clamp(TheTile(m).n - 1, 1, 11), TheTile(m))

(* C8 as amended: the run candidate of one concrete tile v (1..13) and two *)
(* wildcards is the run of three that starts at v and goes upward, moved   *)
(* down only as far as 13 forces: v, v+1, v+2 for v <= 11 and 11, 12, 13   *)
(* for v = 12 and v = 13; its value is the sum of that run.                *)
C8_UpwardRun ==
    Done => \A i \in Melds :
        LET m == readable_sets[i]
        IN  AmbiguousShape(m) =>
                RunCandidate(m) = RunOfThree(Clamp(TheTile(m).n, 1, 11), TheTile(m))

\* an initial meld around an 11 resolved as the run 11, 12, 13
C8_Witness ==
    /\ Done /\ initial_meld
    /\ AmbiguousShape(readable_sets[1])
    /\ TheTile(readable_sets[1]).n = 11
    /\ resolved[1] = RunCandidate(readable_sets[1])
    /\ resolved[1].set = <<RunLabel, TheTile(readable_sets[1]), Joker, Joker>>
    /\ resolved[1].total = 36

----------------------------------------------------------------------------
OneColour(m) == Cardinality(ColoursOf(m)) = 1

\* integers missing between the lowest and the highest concrete number
MissingInside(m) == (MaxOf(ValuesOf(m)) - MinOf(ValuesOf(m)) + 1) - Cardinality(ValuesOf(m))

InSetsToMake(m) == \E k \in DOMAIN move.sets_to_make : move.sets_to_make[k] = m

\* one colour, distinct numbers, wildcards, and gaps the wildcards cannot fill
GapShape(m) ==
    /\ OneColour(m) /\ Distinct(m)
    /\ Wildcards(m) >= 1
    /\ MissingInside(m) > Wildcards(m)

(* C3: run gap-filling failure.  A one-colour meld whose concrete numbers  *)
(* leave more integers missing between them than the meld has wildcards    *)
(* fails to resolve: it is not scored and is not in sets_to_make.          *)
C3_GapFailure ==
    Done => \A i \in Melds :
        GapShape(readable_sets[i]) =>
            /\ ~resolved[i].ok
            /\ ~InSetsToMake(readable_sets[i])

\* distinct colours with distinct numbers, or one colour with a repeated number
InvalidShape(m) ==
    \/ Cardinality(ColoursOf(m)) >= 2 /\ Cardinality(ValuesOf(m)) >= 2
    \/ OneColour(m) /\ ~Distinct(m)

(* C9: invalid classification.  A meld whose concrete tiles mix distinct   *)
(* colours with distinct numbers, or repeat a number on one colour, is not *)
(* scored as a Run or a Group, adds no points and is not in sets_to_make.  *)
C9_InvalidDropped ==
    Done => \A i \in Melds :
        InvalidShape(readable_sets[i]) =>
            /\ ~resolved[i].ok
            /\ ~InSetsToMake(readable_sets[i])

\* one colour, distinct numbers, at least one wildcard
RunShape(m) == OneColour(m) /\ Distinct(m) /\ Wildcards(m) >= 1

(* C10: tile preservation.  For a one-colour meld of distinct numbers with *)
(* at least one wildcard, in any tile order, the set place_joker_in_run    *)
(* returns has as many tiles as the meld, each concrete tile of the meld   *)
(* once, and as many 'j' entries as the meld has wildcards.                *)
C10_TilesPreserved ==
    Done => \A i \in Melds :
        LET m == readable_sets[i]
            out == Tail(resolved[i].set)
        IN  (RunShape(m) /\ resolved[i].ok /\ Head(resolved[i].set) = RunLabel) =>
                /\ Len(out) = Len(m)
                /\ Count(out, Joker) = Wildcards(m)
                /\ Len(Concrete(out)) = Len(Concrete(m))
                /\ {Concrete(out)[k] : k \in 1..Len(Concrete(out))}
                       = {Concrete(m)[k] : k \in 1..Len(Concrete(m))}

\* one colour, distinct numbers with nothing missing between them, wildcards
\* left over, and not the shape that may be read as a group
ContiguousShape(m) ==
    /\ RunShape(m)
    /\ MissingInside(m) = 0
    /\ ~AmbiguousShape(m)

\* the run lo..hi after k wildcards are placed above while that stays within
\* 1..numbers, below otherwise
RECURSIVE ExtendWithin(_, _, _, _)
ExtendWithin(lo, hi, k, numbers) ==
    IF k = 0 THEN [lo |-> lo, hi |-> hi]
    ELSE IF hi + 1 <= numbers THEN ExtendWithin(lo, hi + 1, k - 1, numbers)
         ELSE ExtendWithin(lo - 1, hi, k - 1, numbers)

(* C6: run boundary extension respects the rule set of the request.  For a *)
(* one-colour meld of contiguous numbers each wildcard goes to maximum + 1 *)
(* while that is at most sg.numbers, otherwise to minimum - 1, so the run  *)
(* scored lies in 1..sg.numbers.                                           *)
C6_ExtensionWithinRuleSet ==
    Done => \A i \in Melds :
        LET m == readable_sets[i]
            run == ExtendWithin(MinOf(ValuesOf(m)), MaxOf(ValuesOf(m)),
                                Wildcards(m), sg_numbers)
        IN  (ContiguousShape(m) /\ run.lo >= 1) =>
                /\ resolved[i].ok
                /\ Head(resolved[i].set) = RunLabel
                /\ resolved[i].total = SumRange(run.lo, run.hi)

====
